---- MODULE Spec2Model ----
(***************************************************************************)
(* Model of nnu: the walk-back chain generator and WalkbackDataset of      *)
(* nnu/nn/autoencoder/DAE.py, and DiagonalGuassian.kl_divergence of        *)
(* nnu/nn/module/sample.py.                                                *)
(*                                                                         *)
(* Tensors.  A sample is a term: a sequence of integers <<j, o1, o2, ..>>  *)
(* where j >= 1 identifies a sample of the base collection, an entry 0     *)
(* records one application of the model and an entry k >= 1 records one    *)
(* application of the corruption function with its k-th noise draw.  The   *)
(* model and the corruption function are black boxes to the repository,    *)
(* so a term is the exact record of what they were applied to, in which    *)
(* order, and with which draw.  A batch tensor is a sequence of terms.     *)
(***************************************************************************)
EXTENDS Integers, Sequences, FiniteSets, TLC

VARIABLES
    \* ---- WalkbackDataset (DAE.py 28-87) ----
    base,        \* the base collection x handed to the constructor
    batch_size,  \* self.batch_size
    n,           \* self.n = 2 + n_walkback
    data,        \* self.data: sequence of <<batch_x, chain>>
    pc,          \* position inside __init__ / _chain, or "ready" / "raised"
    consumed,    \* samples the DataLoader has handed out so far
    batch_x,     \* the batch of the running loop iteration
    gen,         \* what the running _chain generator has yielded so far
    x, c, i,     \* locals of _chain
    calls,       \* every call to model / corrupt so far, with its outcome
    exc,         \* the exception that left the constructor ("none" if none)
    op, arg, ret,\* the last read operation, its argument and its result
    \* ---- chain() (DAE.py 18-26) ----
    ch_seed, ch_n, ch_pc, ch_x, ch_c, ch_i, ch_out, ch_calls, ch_exc, ch_ret,
    \* ---- DiagonalGuassian.kl_divergence (sample.py 124-145) ----
    mu1, logvar1, mu2, logvar2, kl_pc, kl_ret

ds_vars == <<base, batch_size, n, data, pc, consumed, batch_x, gen, x, c, i,
             calls, exc, op, arg, ret>>
ch_vars == <<ch_seed, ch_n, ch_pc, ch_x, ch_c, ch_i, ch_out, ch_calls, ch_exc, ch_ret>>
kl_vars == <<mu1, logvar1, mu2, logvar2, kl_pc, kl_ret>>
vars == <<ds_vars, ch_vars, kl_vars>>

----------------------------------------------------------------------------
\* Bounds of the model.
MaxN == 5
MaxBatch == 3
MaxWalk == 2
MaxSeed == 3
MaxDepth == 4
MaxD == 2

----------------------------------------------------------------------------
\* The collaborators, as term constructors.

\* model(t): one more application of the model to every element.
model(t) == [e \in 1..Len(t) |-> Append(t[e], 0)]

\* corrupt(t) with noise draw k >= 1.
corrupt(t, k) == [e \in 1..Len(t) |-> Append(t[e], k)]

\* Number of calls of `f` recorded in a call log.
Count(log, f) == Cardinality({k \in 1..Len(log) : log[k].fn = f})

\* Outcome of one call to a collaborator: it returns or it raises.
Outcomes == {"ok", "raise"}

Call(f, o) == [fn |-> f, out |-> o]

\* The base collection of N samples: sample j is the term <<j>>.
Samples(N) == [j \in 1..N |-> <<j>>]

NoTensor == <<>>

----------------------------------------------------------------------------
\* WalkbackDataset.__init__ and WalkbackDataset._chain

NoResult == [kind |-> "none", x |-> <<>>, y |-> <<>>, v |-> 0]

InitDataset ==
    /\ \E N \in 0..MaxN : base = Samples(N)
    /\ batch_size \in 1..MaxBatch
    /\ \E n_walkback \in 0..MaxWalk : n = 2 + n_walkback
    /\ data = <<>>
    /\ pc = "loader"
    /\ consumed = 0
    /\ batch_x = NoTensor
    /\ gen = <<>>
    /\ x = NoTensor
    /\ c = NoTensor
    /\ i = 0
    /\ calls = <<>>
    /\ exc = "none"
    /\ op = "none"
    /\ arg = 0
    /\ ret = NoResult

NextBatchFromEnd(done) ==
    SubSeq(base,
           (IF done + batch_size <= Len(base) THEN Len(base) - done - batch_size ELSE 0) + 1,
           Len(base) - done)

\* DataLoader(x, batch_size=batch_size, shuffle=False): the next batch is the
\* next batch_size samples in order, fewer when the collection runs out.
NextBatch(done) ==
    SubSeq(base, done + 1,
           IF done + batch_size <= Len(base) THEN done + batch_size ELSE Len(base))

OnFailureRetry(who) ==
    /\ pc' = pc
    /\ exc' = "none"
    /\ UNCHANGED <<data, consumed, batch_x, gen, x, c, i>>

\* A model or corrupt call raised: nothing catches it, so it leaves _chain,
\* the list comprehension and __init__; no dataset object results.
OnFailure(who) ==
    /\ pc' = "raised"
    /\ exc' = who
    /\ UNCHANGED <<data, consumed, batch_x, gen, x, c, i>>

WalkbackStepsOneMore == n - 1

\* range(self.n - 2): how many corrupt(model(.)) steps follow the first corruption.
WalkbackSteps == n - 2

\* The generator is exhausted: the list comprehension ends and the record is
\* appended (line 54), then the loader is asked for the next batch.
Yielded(g, more) ==
    /\ gen' = g
    /\ IF more
         THEN /\ pc' = "model"
              /\ UNCHANGED data
         ELSE /\ pc' = "loader"
              /\ data' = Append(data, <<batch_x, g>>)

\* for batch_x, in loader: ... ; first step of _chain: yield x.
LoaderNext ==
    /\ pc = "loader"
    /\ consumed < Len(base)
    /\ batch_x' = NextBatch(consumed)
    /\ consumed' = consumed + Len(NextBatch(consumed))
    /\ gen' = <<NextBatch(consumed)>>
    /\ x' = NextBatch(consumed)
    /\ pc' = "corrupt0"
    /\ UNCHANGED <<base, batch_size, n, data, c, i, calls, exc, op, arg, ret>>

\* The loader is exhausted: __init__ returns.
LoaderDone ==
    /\ pc = "loader"
    /\ consumed = Len(base)
    /\ pc' = "ready"
    /\ UNCHANGED <<base, batch_size, n, data, consumed, batch_x, gen, x, c, i,
                   calls, exc, op, arg, ret>>

\* c = self.corrupt(x); yield c            (lines 60-61)
CorruptFirst ==
    /\ pc = "corrupt0"
    /\ \E o \in Outcomes :
         /\ calls' = Append(calls, Call("corrupt", o))
         /\ IF o = "raise"
              THEN OnFailure("corrupt")
              ELSE /\ c' = corrupt(x, Count(calls, "corrupt") + 1)
                   /\ i' = 0
                   /\ Yielded(Append(gen, c'), 0 < WalkbackSteps)
                   /\ UNCHANGED <<consumed, batch_x, x, exc>>
    /\ UNCHANGED <<base, batch_size, n, op, arg, ret>>

ModelStepOnRaw ==
    /\ pc = "model"
    /\ \E o \in Outcomes :
         /\ calls' = Append(calls, Call("model", o))
         /\ IF o = "raise"
              THEN OnFailure("model")
              ELSE /\ x' = model(x)
                   /\ pc' = "corrupt"
                   /\ UNCHANGED <<data, consumed, batch_x, gen, c, i, exc>>
    /\ UNCHANGED <<base, batch_size, n, op, arg, ret>>

\* x = self.model(c)                       (line 63)
ModelStep ==
    /\ pc = "model"
    /\ \E o \in Outcomes :
         /\ calls' = Append(calls, Call("model", o))
         /\ IF o = "raise"
              THEN OnFailure("model")
              ELSE /\ x' = model(c)
                   /\ pc' = "corrupt"
                   /\ UNCHANGED <<data, consumed, batch_x, gen, c, i, exc>>
    /\ UNCHANGED <<base, batch_size, n, op, arg, ret>>

\* c = self.corrupt(x); yield c            (lines 64-65)
CorruptStep ==
    /\ pc = "corrupt"
    /\ \E o \in Outcomes :
         /\ calls' = Append(calls, Call("corrupt", o))
         /\ IF o = "raise"
              THEN OnFailure("corrupt")
              ELSE /\ c' = corrupt(x, Count(calls, "corrupt") + 1)
                   /\ i' = i + 1
                   /\ Yielded(Append(gen, c'), i + 1 < WalkbackSteps)
                   /\ UNCHANGED <<consumed, batch_x, x, exc>>
    /\ UNCHANGED <<base, batch_size, n, op, arg, ret>>

----------------------------------------------------------------------------
\* WalkbackDataset.__len__ and WalkbackDataset.__getitem__

IndexError == [kind |-> "IndexError", x |-> <<>>, y |-> <<>>, v |-> 0]
Pair(px, py) == [kind |-> "pair", x |-> px, y |-> py, v |-> 0]
IntResult(k) == [kind |-> "int", x |-> <<>>, y |-> <<>>, v |-> k]

\* Python list indexing s[k] (0-based, negative k counts from the end):
\* whether it is in range, and the 1-based position it reads.
PyInRange(s, k) == 0 - Len(s) <= k /\ k < Len(s)
PyPos(s, k) == IF k < 0 THEN Len(s) + k + 1 ELSE k + 1

\* ((len(self.data) - 1) * self.batch_size * self.n) + (self.n * len(self.data[-1][0]))
\* self.data[-1] raises IndexError on an empty list.
LenValueNominal == Len(data) * batch_size * n
LenValue == ((Len(data) - 1) * batch_size * n) + (n * Len(data[Len(data)][1]))

len == IF data = <<>> THEN IndexError ELSE IntResult(LenValue)

\* if 0 > i > len(self): raise IndexError()
\* A chained comparison: len(self) is evaluated only when 0 > i holds.
RangeCheck(j) ==
    IF 0 > j
      THEN (IF data = <<>> THEN "IndexError"
            ELSE IF j > LenValue THEN "IndexError" ELSE "pass")
      ELSE "pass"

\* Lines 71-79: the index decomposition.  // and % are Python's floor
\* division and modulus, which \div and % are for a positive divisor.
b_index(j) == j \div (batch_size * n)
i_rem(j) == j % (batch_size * n)
actual_batch_size(j) == Len(data[PyPos(data, b_index(j))][1])
c_indexNominal(j) == i_rem(j) \div batch_size
c_index(j) == i_rem(j) \div actual_batch_size(j)
e_index(j) == i_rem(j) % actual_batch_size(j)

\* __getitem__(i): the pair returned, or the IndexError raised by the range
\* check (line 68) or by a list index out of range (lines 76, 82).
getitem(j) ==
    IF RangeCheck(j) = "IndexError" THEN IndexError
    ELSE IF ~PyInRange(data, b_index(j)) THEN IndexError
    ELSE LET rec == data[PyPos(data, b_index(j))]
             y == rec[1]
             xs == rec[2]
         IN  IF ~PyInRange(xs, c_index(j)) THEN IndexError
             ELSE Pair(xs[PyPos(xs, c_index(j))][e_index(j) + 1], y[e_index(j) + 1])

\* Arguments tried for __getitem__: every valid index and some on either side.
IndexRange == (0 - (MaxN * (MaxWalk + 2) + 2)) .. (MaxN * (MaxWalk + 2) + 2)

GetWritesBatchSize(j) ==
    /\ pc = "ready"
    /\ op' = "get"
    /\ arg' = j
    /\ ret' = getitem(j)
    /\ batch_size' = IF PyInRange(data, b_index(j)) THEN actual_batch_size(j) ELSE batch_size
    /\ UNCHANGED <<base, n, data, pc, consumed, batch_x, gen, x, c, i, calls, exc>>

Get(j) ==
    /\ pc = "ready"
    /\ op' = "get"
    /\ arg' = j
    /\ ret' = getitem(j)
    /\ UNCHANGED <<base, batch_size, n, data, pc, consumed, batch_x, gen, x, c, i,
                   calls, exc>>

LenCall ==
    /\ pc = "ready"
    /\ op' = "len"
    /\ arg' = 0
    /\ ret' = len
    /\ UNCHANGED <<base, batch_size, n, data, pc, consumed, batch_x, gen, x, c, i,
                   calls, exc>>

----------------------------------------------------------------------------
\* chain(x, model, corrupt, n)            (lines 18-26)

InitChain ==
    /\ \E m \in 1..MaxSeed : ch_seed = Samples(m)
    /\ ch_n \in 0..MaxDepth
    /\ ch_pc = "corrupt0"
    /\ ch_x = ch_seed
    /\ ch_c = NoTensor
    /\ ch_i = 0
    /\ ch_out = <<>>
    /\ ch_calls = <<>>
    /\ ch_exc = "none"
    /\ ch_ret = <<>>

\* A call raised inside the generator: the list comprehension is abandoned
\* and chain() returns nothing.
ChainOnFailure(who) ==
    /\ ch_pc' = "raised"
    /\ ch_exc' = who
    /\ UNCHANGED <<ch_x, ch_c, ch_i, ch_out, ch_ret>>

\* range(n - 1)
ChainSteps == ch_n - 1

\* yield c: the comprehension collects c; when the generator is exhausted
\* the list is returned (line 26).
ChainYielded(out, more) ==
    /\ ch_out' = out
    /\ IF more
         THEN /\ ch_pc' = "model"
              /\ UNCHANGED ch_ret
         ELSE /\ ch_pc' = "done"
              /\ ch_ret' = out

\* c = corrupt(x); yield c                 (lines 20-21)
ChainCorruptFirst ==
    /\ ch_pc = "corrupt0"
    /\ \E o \in Outcomes :
         /\ ch_calls' = Append(ch_calls, Call("corrupt", o))
         /\ IF o = "raise"
              THEN ChainOnFailure("corrupt")
              ELSE /\ ch_c' = corrupt(ch_x, Count(ch_calls, "corrupt") + 1)
                   /\ ch_i' = 0
                   /\ ChainYielded(Append(ch_out, ch_c'), 0 < ChainSteps)
                   /\ UNCHANGED <<ch_x, ch_exc>>
    /\ UNCHANGED <<ch_seed, ch_n>>

ChainModelStepOnRaw ==
    /\ ch_pc = "model"
    /\ \E o \in Outcomes :
         /\ ch_calls' = Append(ch_calls, Call("model", o))
         /\ IF o = "raise"
              THEN ChainOnFailure("model")
              ELSE /\ ch_x' = model(ch_x)
                   /\ ch_pc' = "corrupt"
                   /\ UNCHANGED <<ch_c, ch_i, ch_out, ch_exc, ch_ret>>
    /\ UNCHANGED <<ch_seed, ch_n>>

\* x = model(c)                            (line 23)
ChainModelStep ==
    /\ ch_pc = "model"
    /\ \E o \in Outcomes :
         /\ ch_calls' = Append(ch_calls, Call("model", o))
         /\ IF o = "raise"
              THEN ChainOnFailure("model")
              ELSE /\ ch_x' = model(ch_c)
                   /\ ch_pc' = "corrupt"
                   /\ UNCHANGED <<ch_c, ch_i, ch_out, ch_exc, ch_ret>>
    /\ UNCHANGED <<ch_seed, ch_n>>

\* c = corrupt(x); yield c                 (lines 24-25)
ChainCorruptStep ==
    /\ ch_pc = "corrupt"
    /\ \E o \in Outcomes :
         /\ ch_calls' = Append(ch_calls, Call("corrupt", o))
         /\ IF o = "raise"
              THEN ChainOnFailure("corrupt")
              ELSE /\ ch_c' = corrupt(ch_x, Count(ch_calls, "corrupt") + 1)
                   /\ ch_i' = ch_i + 1
                   /\ ChainYielded(Append(ch_out, ch_c'), ch_i + 1 < ChainSteps)
                   /\ UNCHANGED <<ch_x, ch_exc>>
    /\ UNCHANGED <<ch_seed, ch_n>>

\* chain() as a function of its seed, its depth and the number k0 of noise
\* draws made before it: the list it returns when no call raises.
RECURSIVE chainLoop(_, _, _, _)
chainLoop(cprev, left, k, acc) ==
    IF left <= 0 THEN acc
    ELSE LET xx == model(cprev)
             cc == corrupt(xx, k)
         IN  chainLoop(cc, left - 1, k + 1, Append(acc, cc))

chain(seed, depth, k0) ==
    LET c0 == corrupt(seed, k0 + 1)
    IN  chainLoop(c0, depth - 1, k0 + 2, <<c0>>)

----------------------------------------------------------------------------
\* DiagonalGuassian.kl_divergence(mu1, logvar1, mu2=None, logvar2=None)
\*
\* Numbers.  A log-variance is an integer k standing for k * ln 2, so that
\* exp(logvar) = 2^k exactly; a mean is an integer.  Every value the function
\* computes is then q/8 + (l/2) * ln 2 for integers q and l, and since 1 and
\* ln 2 are rationally independent two values are equal exactly when their
\* (q, l) agree.  Sums are kept in quarters (4 * value) until the final halving.

MuVals == {0, 1}
LogVarVals == {-1, 0, 1}

None == [given |-> FALSE, val |-> <<>>]
Some(v) == [given |-> TRUE, val |-> v]

Value(q, l) == [kind |-> "value", q |-> q, l |-> l]
AssertionError == [kind |-> "AssertionError", q |-> 0, l |-> 0]
NoValue == [kind |-> "none", q |-> 0, l |-> 0]

\* 4 * exp(k * ln 2) = 2^(k + 2), for k >= -2.
Exp4(k) == 2 ^ (k + 2)

RECURSIVE SumSeq(_)
SumSeq(s) == IF s = <<>> THEN 0 ELSE Head(s) + SumSeq(Tail(s))

\* ((mu1 ** 2 + logvar1.exp() - logvar1).sum(dim=-1) - mu1.shape[-1]) / 2
kl_standard(m1, lv1) ==
    Value(SumSeq([d \in 1..Len(m1) |-> 4 * m1[d] * m1[d] + Exp4(lv1[d])]) - 4 * Len(m1),
          SumSeq([d \in 1..Len(m1) |-> 0 - lv1[d]]))

\* ivar2 = 1. / logvar2.exp(); dmu = (mu1 - mu2)
\* ((logvar1 - logvar2 + dmu * ivar2 * dmu + ivar2 * logvar1.exp()).sum(dim=-1) - mu1.shape[-1]) / 2
kl_gaussian(m1, lv1, m2, lv2) ==
    Value(SumSeq([d \in 1..Len(m1) |->
                    (m1[d] - m2[d]) * Exp4(0 - lv2[d]) * (m1[d] - m2[d])
                    + Exp4(lv1[d] - lv2[d])]) - 4 * Len(m1),
          SumSeq([d \in 1..Len(m1) |-> lv1[d] - lv2[d]]))

\* Lines 139-145.
kl_divergence(m1, lv1, m2, lv2) ==
    IF ~m2.given \/ ~lv2.given
      THEN (IF ~m2.given /\ ~lv2.given
              THEN kl_standard(m1, lv1)
              ELSE AssertionError)
      ELSE kl_gaussian(m1, lv1, m2.val, lv2.val)

\* The docstring's formulas (lines 129-130):
\*   KL(N(mu,S) || N(0,1)) = 1/2 [ mu'mu + tr S - d - log|S| ]
\*   KL(P || Q) = 1/2 [ log(|S_q|/|S_p|) + tr(S_q^-1 S_p)
\*                      + (mu_p - mu_q)' S_q^-1 (mu_p - mu_q) - d ]
kl_standard_doc(m1, lv1) ==
    Value(SumSeq([d \in 1..Len(m1) |-> 4 * m1[d] * m1[d]])
            + SumSeq([d \in 1..Len(m1) |-> Exp4(lv1[d])]) - 4 * Len(m1),
          0 - SumSeq(lv1))

kl_gaussian_doc(m1, lv1, m2, lv2) ==
    Value(SumSeq([d \in 1..Len(m1) |-> Exp4(lv1[d] - lv2[d])])
            + SumSeq([d \in 1..Len(m1) |->
                        (m1[d] - m2[d]) * (m1[d] - m2[d]) * Exp4(0 - lv2[d])])
            - 4 * Len(m1),
          SumSeq(lv2) - SumSeq(lv1))

InitKL ==
    /\ \E D \in 1..MaxD :
         /\ mu1 \in [1..D -> MuVals]
         /\ logvar1 \in [1..D -> LogVarVals]
         /\ mu2 \in {None} \cup {Some(v) : v \in [1..D -> MuVals]}
         /\ logvar2 \in {None} \cup {Some(v) : v \in [1..D -> LogVarVals]}
    /\ kl_pc = "call"
    /\ kl_ret = NoValue

KLCall ==
    /\ kl_pc = "call"
    /\ kl_ret' = kl_divergence(mu1, logvar1, mu2, logvar2)
    /\ kl_pc' = "done"
    /\ UNCHANGED <<mu1, logvar1, mu2, logvar2>>

----------------------------------------------------------------------------
\* Idle values of the parts a specification does not run.

IdleDataset ==
    /\ base = <<>> /\ batch_size = 1 /\ n = 2 /\ data = <<>> /\ pc = "idle"
    /\ consumed = 0 /\ batch_x = NoTensor /\ gen = <<>> /\ x = NoTensor
    /\ c = NoTensor /\ i = 0 /\ calls = <<>> /\ exc = "none" /\ op = "none"
    /\ arg = 0 /\ ret = NoResult

IdleChain ==
    /\ ch_seed = NoTensor /\ ch_n = 0 /\ ch_pc = "idle" /\ ch_x = NoTensor
    /\ ch_c = NoTensor /\ ch_i = 0 /\ ch_out = <<>> /\ ch_calls = <<>>
    /\ ch_exc = "none" /\ ch_ret = <<>>

IdleKL ==
    /\ mu1 = <<>> /\ logvar1 = <<>> /\ mu2 = None /\ logvar2 = None
    /\ kl_pc = "idle" /\ kl_ret = NoValue

----------------------------------------------------------------------------
\* One program run: a dataset is constructed and then read, or chain() is
\* called, or kl_divergence() is called.

Init ==
    \/ InitDataset /\ IdleChain /\ IdleKL
    \/ IdleDataset /\ InitChain /\ IdleKL
    \/ IdleDataset /\ IdleChain /\ InitKL

Next ==
    \/ LoaderNext /\ UNCHANGED <<ch_vars, kl_vars>>
    \/ LoaderDone /\ UNCHANGED <<ch_vars, kl_vars>>
    \/ CorruptFirst /\ UNCHANGED <<ch_vars, kl_vars>>
    \/ ModelStep /\ UNCHANGED <<ch_vars, kl_vars>>
    \/ CorruptStep /\ UNCHANGED <<ch_vars, kl_vars>>
    \/ (\E j \in IndexRange : Get(j)) /\ UNCHANGED <<ch_vars, kl_vars>>
    \/ LenCall /\ UNCHANGED <<ch_vars, kl_vars>>
    \/ ChainCorruptFirst /\ UNCHANGED <<ds_vars, kl_vars>>
    \/ ChainModelStep /\ UNCHANGED <<ds_vars, kl_vars>>
    \/ ChainCorruptStep /\ UNCHANGED <<ds_vars, kl_vars>>
    \/ KLCall /\ UNCHANGED <<ds_vars, ch_vars>>

Spec == Init /\ [][Next]_vars

----------------------------------------------------------------------------
\* Properties.

\* The brute-force enumeration of a dataset: batches in storage order, within
\* a batch the chain positions 0..n-1, within a chain position the elements.
RECURSIVE EnumerateChain(_, _)
EnumerateChain(rec, cpos) ==
    IF cpos > n THEN <<>>
    ELSE [e \in 1..Len(rec[1]) |-> Pair(rec[2][cpos][e], rec[1][e])]
           \o EnumerateChain(rec, cpos + 1)

RECURSIVE EnumerateFrom(_)
EnumerateFrom(b) ==
    IF b > Len(data) THEN <<>> ELSE EnumerateChain(data[b], 1) \o EnumerateFrom(b + 1)

Enumeration == EnumerateFrom(1)

\* Every (batch, chain position, element) triple of the stored records, 0-based.
Triples ==
    UNION {{<<b, cp, e>> : cp \in 0..(n - 1), e \in 0..(Len(data[b + 1][1]) - 1)} :
           b \in 0..(Len(data) - 1)}

RECURSIVE ConcatOriginals(_)
ConcatOriginals(b) ==
    IF b > Len(data) THEN <<>> ELSE data[b][1] \o ConcatOriginals(b + 1)

Constructed == pc = "ready" /\ data # <<>>

\* C1: for a dataset built from a non-empty collection and every i with
\* 0 <= i < len, get(i) returns the pair at position i of the brute-force
\* enumeration (batches, then chain positions, then elements), and
\* i -> (b_index, c_index, e_index) is a bijection from 0..len-1 onto the
\* (batch, chain position, element) triples.
C1_GetMatchesEnumeration ==
    Constructed =>
      /\ Len(Enumeration) = LenValue
      /\ (op = "get" /\ 0 <= arg /\ arg < LenValue) => ret = Enumeration[arg + 1]
      /\ {<<b_index(j), c_index(j), e_index(j)>> : j \in 0..(LenValue - 1)} = Triples
      /\ Cardinality(Triples) = LenValue

\* A valid get on a ragged last batch, past its first chain position.
C1_Witness ==
    /\ Constructed /\ op = "get" /\ ret.kind = "pair"
    /\ Len(data) >= 2
    /\ Len(data[Len(data)][1]) < batch_size
    /\ b_index(arg) = Len(data) - 1
    /\ c_index(arg) >= 1
    /\ 0 <= arg /\ arg < LenValue

\* C2: len = (num_batches - 1) * batch_size * n_total + n_total * (size of the
\* last batch) = sum over the stored batches of size * n_total = N * n_total;
\* N = batch_size gives batch_size * n_total; N = 5, batch_size = 2,
\* n_walkback = 1 gives 15.
C2_LenClosedForm ==
    Constructed =>
      /\ len = IntResult((Len(data) - 1) * batch_size * n
                           + n * Len(data[Len(data)][1]))
      /\ len.v = SumSeq([b \in 1..Len(data) |-> Len(data[b][1]) * n])
      /\ len.v = Len(base) * n
      /\ (Len(base) = batch_size => len.v = batch_size * n)
      /\ (Len(base) = 5 /\ batch_size = 2 /\ n = 3 => len.v = 15)
      /\ (op = "len" => ret = IntResult(Len(base) * n))

C2_Witness ==
    /\ Constructed /\ op = "len"
    /\ Len(base) = 5 /\ batch_size = 2 /\ n = 3
    /\ ret = IntResult(15)

\* C3 (as claimed): every get(i) with i < 0 or i >= len fails with IndexError.
C3_OutOfRangeRaises ==
    (Constructed /\ op = "get" /\ (arg < 0 \/ arg >= LenValue)) => ret = IndexError

\* C4: for n >= 1 chain() returns exactly n elements, c_0 = corrupt(seed) and
\* c_i = corrupt(model(c_{i-1})), each shaped like the seed; it calls corrupt
\* n times and model n - 1 times, alternating corrupt, model, ..., corrupt.
C4_ChainRecurrence ==
    (ch_pc = "done" /\ ch_n >= 1) =>
      /\ Len(ch_ret) = ch_n
      /\ ch_ret[1] = corrupt(ch_seed, 1)
      /\ \A k \in 2..ch_n : ch_ret[k] = corrupt(model(ch_ret[k - 1]), k)
      /\ \A k \in 1..ch_n : Len(ch_ret[k]) = Len(ch_seed)
      /\ Count(ch_calls, "corrupt") = ch_n
      /\ Count(ch_calls, "model") = ch_n - 1
      /\ Len(ch_calls) = 2 * ch_n - 1
      /\ \A k \in 1..Len(ch_calls) :
           /\ ch_calls[k].fn = (IF k % 2 = 1 THEN "corrupt" ELSE "model")
           /\ ch_calls[k].out = "ok"

C4_Witness == ch_pc = "done" /\ ch_n >= 3 /\ Len(ch_ret) = ch_n /\ Len(ch_seed) >= 2

\* C5: every stored record is (original_batch, [original_batch] + C) with C
\* what chain(original_batch, model, corrupt, n_total - 1) produces from the
\* same noise draws; the stored chain has n_total elements and its element 0
\* is the record's original batch.
C5_RecordIsChain ==
    \A b \in 1..Len(data) :
      /\ data[b][2] = <<data[b][1]>> \o chain(data[b][1], n - 1, (b - 1) * (n - 1))
      /\ Len(data[b][2]) = n
      /\ data[b][2][1] = data[b][1]

C5_Witness == pc = "ready" /\ Len(data) >= 2 /\ n >= 4

\* C6 (as claimed): after the original, the chain holds the first corruption
\* and exactly n_walkback - 1 further corrupt(model(.)) steps.
C6_FurtherStepsOneLess ==
    Constructed => \A b \in 1..Len(data) : Len(data[b][2]) - 2 = (n - 2) - 1

\* C6 (amended): after the original, the chain holds the first corruption of
\* the batch and exactly n_walkback further steps, each the corruption of the
\* model's output on the previous chain element.
C6_FurtherStepsEqualDepth ==
    Constructed =>
      \A b \in 1..Len(data) :
        /\ Len(data[b][2]) - 2 = n - 2
        /\ \E k \in 1..Count(calls, "corrupt") : data[b][2][2] = corrupt(data[b][1], k)
        /\ \A p \in 3..Len(data[b][2]) :
             \E k \in 1..Count(calls, "corrupt") :
               data[b][2][p] = corrupt(model(data[b][2][p - 1]), k)

C6_Witness == Constructed /\ n = 4 /\ Len(data[1][2]) = 4 /\ Len(data[1][1]) >= 2

\* C7: the stored records partition the base collection in order: the
\* originals concatenate to the base collection, every record but the last
\* has batch_size elements and the last has between 1 and batch_size.
C7_BatchesPartitionBase ==
    (pc = "ready" /\ base # <<>>) =>
      /\ data # <<>>
      /\ ConcatOriginals(1) = base
      /\ \A b \in 1..(Len(data) - 1) : Len(data[b][1]) = batch_size
      /\ 1 <= Len(data[Len(data)][1])
      /\ Len(data[Len(data)][1]) <= batch_size

C7_Witness ==
    /\ pc = "ready" /\ Len(data) >= 3
    /\ Len(data[Len(data)][1]) < batch_size

\* C8: a raising model or corrupt call is the last call made, its exception is
\* what leaves chain() or the constructor, chain() returns no list and the
\* constructor yields no dataset (nothing can be read from it).
C8_FailurePropagates ==
    /\ \A k \in 1..Len(calls) :
         calls[k].out = "raise" => (k = Len(calls) /\ pc = "raised" /\ exc = calls[k].fn)
    /\ (pc = "raised" => (op = "none" /\ ret = NoResult /\ exc # "none"))
    /\ (pc = "ready" => exc = "none")
    /\ \A k \in 1..Len(ch_calls) :
         ch_calls[k].out = "raise" =>
           (k = Len(ch_calls) /\ ch_pc = "raised" /\ ch_exc = ch_calls[k].fn)
    /\ (ch_pc = "raised" => (ch_ret = <<>> /\ ch_exc # "none"))
    /\ (ch_pc = "done" => ch_exc = "none")

\* The model raises in the second batch, after a record has been stored.
C8_Witness == pc = "raised" /\ exc = "model" /\ Len(data) >= 1 /\ consumed < Len(base)

\* C9: once constructed, get and len leave the records, batch_size and n_total
\* unchanged and call neither the model nor the corruption function; the same
\* read repeated returns the same result.
C9_ReadsChangeNothing ==
    [][pc = "ready" =>
         /\ data' = data /\ batch_size' = batch_size /\ n' = n /\ base' = base
         /\ calls' = calls /\ pc' = "ready"
         /\ ((op = op' /\ arg = arg') => ret' = ret)]_vars

C9_Witness == pc = "ready" /\ op = "get" /\ ret.kind = "pair" /\ Len(data) >= 2 /\ arg < 0

\* C10 (as claimed): with neither mu2 nor logvar2 the result is the divergence
\* against the standard normal, with both it is the divergence against the
\* second Gaussian, with exactly one the call fails with an assertion.
C10_ModesComputeDivergence ==
    kl_pc = "done" =>
      /\ (~mu2.given /\ ~logvar2.given) => kl_ret = kl_standard_doc(mu1, logvar1)
      /\ (mu2.given /\ logvar2.given) =>
           kl_ret = kl_gaussian_doc(mu1, logvar1, mu2.val, logvar2.val)
      /\ (mu2.given # logvar2.given) => kl_ret = AssertionError

\* What does hold of kl_divergence: the mode is selected as claimed, and the
\* value in the two-Gaussian mode is the expression of line 145.
KLModeSelection ==
    kl_pc = "done" =>
      /\ (~mu2.given /\ ~logvar2.given) => kl_ret = kl_standard_doc(mu1, logvar1)
      /\ (mu2.given /\ logvar2.given) =>
           kl_ret = kl_gaussian(mu1, logvar1, mu2.val, logvar2.val)
      /\ (mu2.given # logvar2.given) => kl_ret = AssertionError

\* The step-by-step chain() and the function chain agree.
ChainFunctionAgrees == ch_pc = "done" => ch_ret = chain(ch_seed, ch_n, 0)

====
